---- MODULE Spec2Model ----
(***************************************************************************)
(* A model of cron_parser: parse (src/cron_parser/parse.py) expands a      *)
(* five-field cron expression into a CronSchedule, explain                 *)
(* (src/cron_parser/explain.py) renders a schedule as an English sentence, *)
(* and the async entry points run either on a worker thread.               *)
(*                                                                         *)
(* A Python str is a sequence of one-character strings, a tuple is a       *)
(* sequence, a call that may raise returns Return(v) or an exception       *)
(* record.                                                                 *)
(***************************************************************************)
EXTENDS Integers, Sequences, FiniteSets, TLC

VARIABLES
    expression,         \* the cron expression the caller holds
    parsed,             \* None, or the outcome of CronUtil.parse(expression)
    explained,          \* None, or the outcome of CronUtil.explain(expression)
    explainedSchedule,  \* None, or the outcome of CronUtil.explain(parsed schedule)
    tasks               \* the asynchronous calls in flight

vars == <<expression, parsed, explained, explainedSchedule, tasks>>

(***************************************************************************)
(* Python values: results, exceptions, str and tuple primitives.           *)
(***************************************************************************)
\* None, as a record so that it compares with results and exceptions
None == [none |-> TRUE]

\* an Optional value that is present
Some(v) == [some |-> v]

Return(v) == [ok |-> TRUE, val |-> v]

\* v bound to a name: F's parameter
With(v, F(_)) == F(v)

\* raise kind(msg) [from cause]
Raise(kind, msg, cause) == [ok |-> FALSE, exc |-> kind, msg |-> msg, cause |-> cause]

Digits == {"0", "1", "2", "3", "4", "5", "6", "7", "8", "9"}

\* str.split() with no argument splits on runs of these
Whitespace == {" ", "\t", "\n"}

DigitValue(c) ==
    CASE c = "0" -> 0 [] c = "1" -> 1 [] c = "2" -> 2 [] c = "3" -> 3
      [] c = "4" -> 4 [] c = "5" -> 5 [] c = "6" -> 6 [] c = "7" -> 7
      [] c = "8" -> 8 [] c = "9" -> 9

DigitChar(d) ==
    CASE d = 0 -> "0" [] d = 1 -> "1" [] d = 2 -> "2" [] d = 3 -> "3"
      [] d = 4 -> "4" [] d = 5 -> "5" [] d = 6 -> "6" [] d = 7 -> "7"
      [] d = 8 -> "8" [] d = 9 -> "9"

\* str.isdigit(): non-empty and every character a digit
isdigit(s) == Len(s) > 0 /\ \A i \in 1..Len(s) : s[i] \in Digits

\* c in s
Contains(s, c) == \E i \in 1..Len(s) : s[i] = c

RECURSIVE DigitsValue(_)
\* the value of a string of decimal digits
DigitsValue(s) ==
    IF Len(s) = 0 THEN 0
    ELSE 10 * DigitsValue(SubSeq(s, 1, Len(s) - 1)) + DigitValue(s[Len(s)])

RECURSIVE str(_)
\* str(n) of an int
str(n) ==
    IF n < 0 THEN <<"-">> \o str(0 - n)
    ELSE IF n < 10 THEN <<DigitChar(n)>>
    ELSE str(n \div 10) \o <<DigitChar(n % 10)>>

RECURSIVE ReprBody(_, _)
\* the escaped characters of repr(s) between the quotes
ReprBody(s, quote) ==
    IF Len(s) = 0 THEN <<>>
    ELSE LET c == Head(s)
             e == CASE c = "\\" -> <<"\\", "\\">>
                    [] c = "\n" -> <<"\\", "n">>
                    [] c = "\t" -> <<"\\", "t">>
                    [] c = quote -> <<"\\", c>>
                    [] OTHER -> <<c>>
         IN  e \o ReprBody(Tail(s), quote)

\* repr(s) of a str, the !r conversion of an f-string
repr(s) ==
    LET quote == IF Contains(s, "'") /\ ~Contains(s, "\"") THEN "\"" ELSE "'"
    IN  <<quote>> \o ReprBody(s, quote) \o <<quote>>

\* int(s): optional sign, then digits with single underscores between them
int(s) ==
    LET signed == Len(s) > 0 /\ s[1] \in {"+", "-"}
        body == IF signed THEN Tail(s) ELSE s
        wellFormed ==
            /\ Len(body) > 0
            /\ \A i \in 1..Len(body) : body[i] \in Digits \cup {"_"}
            /\ body[1] # "_" /\ body[Len(body)] # "_"
            /\ \A i \in 1..Len(body) - 1 : ~(body[i] = "_" /\ body[i + 1] = "_")
        magnitude == DigitsValue(SelectSeq(body, LAMBDA c : c \in Digits))
    IN  IF wellFormed
        THEN Return(IF signed /\ s[1] = "-" THEN 0 - magnitude ELSE magnitude)
        ELSE Raise("ValueError",
                   <<"i","n","v","a","l","i","d"," ","l","i","t","e","r","a","l"," ","f","o","r"," ",
                     "i","n","t","(",")"," ","w","i","t","h"," ","b","a","s","e"," ","1","0",":"," ">>
                   \o repr(s), None)

RECURSIVE split(_, _)
\* s.split(sep) for a one-character sep: empty pieces are kept
split(s, sep) ==
    IF ~Contains(s, sep) THEN <<s>>
    ELSE LET i == CHOOSE k \in 1..Len(s) :
                      s[k] = sep /\ \A j \in 1..k - 1 : s[j] # sep
         IN  <<SubSeq(s, 1, i - 1)>> \o split(SubSeq(s, i + 1, Len(s)), sep)

RECURSIVE split_whitespace(_)
\* s.split(): the maximal runs of non-whitespace characters
split_whitespace(s) ==
    IF Len(s) = 0 THEN <<>>
    ELSE IF Head(s) \in Whitespace THEN split_whitespace(Tail(s))
    ELSE LET stops == {k \in 1..Len(s) : s[k] \in Whitespace}
             n == IF stops = {} THEN Len(s)
                  ELSE (CHOOSE k \in stops : \A j \in stops : k <= j) - 1
         IN  <<SubSeq(s, 1, n)>> \o split_whitespace(SubSeq(s, n + 1, Len(s)))

\* tuple(range(start, stop, step)) for step > 0
range(start, stop, step) ==
    LET n == IF stop <= start THEN 0 ELSE (stop - start + step - 1) \div step
    IN  [i \in 1..n |-> start + (i - 1) * step]

\* x in values
In(x, values) == \E i \in 1..Len(values) : values[i] = x

\* set(values)
ToSet(values) == {values[i] : i \in 1..Len(values)}

RECURSIVE sorted_descending(_)
\* a mutant of sorted: the largest first
sorted_descending(S) ==
    IF S = {} THEN <<>>
    ELSE LET m == CHOOSE x \in S : \A y \in S : x >= y
         IN  <<m>> \o sorted_descending(S \ {m})

RECURSIVE sorted(_)
\* tuple(sorted(S)) of a set of ints
sorted(S) ==
    IF S = {} THEN <<>>
    ELSE LET m == CHOOSE x \in S : \A y \in S : x <= y
         IN  <<m>> \o sorted(S \ {m})

RECURSIVE join(_, _)
\* sep.join(items)
join(sep, items) ==
    IF Len(items) = 0 THEN <<>>
    ELSE IF Len(items) = 1 THEN items[1]
    ELSE items[1] \o sep \o join(sep, Tail(items))

(***************************************************************************)
(* common.py                                                               *)
(***************************************************************************)
FieldNames == <<"minutes", "hours", "day_of_month", "month", "day_of_week">>

FIELD_RANGES ==
    [minutes |-> range(0, 60, 1),
     hours |-> range(0, 24, 1),
     day_of_month |-> range(1, 32, 1),
     month |-> range(1, 13, 1),
     day_of_week |-> range(0, 7, 1)]

DAY_NAME_TO_INDEX ==
    (<<"S","U","N">> :> 0) @@ (<<"M","O","N">> :> 1) @@ (<<"T","U","E">> :> 2)
    @@ (<<"W","E","D">> :> 3) @@ (<<"T","H","U">> :> 4) @@ (<<"F","R","I">> :> 5)
    @@ (<<"S","A","T">> :> 6)

MONTH_NAME_TO_INDEX ==
    (<<"J","A","N">> :> 1) @@ (<<"F","E","B">> :> 2) @@ (<<"M","A","R">> :> 3)
    @@ (<<"A","P","R">> :> 4) @@ (<<"M","A","Y">> :> 5) @@ (<<"J","U","N">> :> 6)
    @@ (<<"J","U","L">> :> 7) @@ (<<"A","U","G">> :> 8) @@ (<<"S","E","P">> :> 9)
    @@ (<<"O","C","T">> :> 10) @@ (<<"N","O","V">> :> 11) @@ (<<"D","E","C">> :> 12)

\* transform_map=None, which _parse_part turns into {}
NoTransformMap == [k \in {} |-> 0]

\* the transform_map parse passes for each field
TransformMaps ==
    [minutes |-> NoTransformMap,
     hours |-> NoTransformMap,
     day_of_month |-> NoTransformMap,
     month |-> MONTH_NAME_TO_INDEX,
     day_of_week |-> DAY_NAME_TO_INDEX]

CronSchedule(minute, hour, day_of_month, month, day_of_week) ==
    [minute |-> minute, hour |-> hour, day_of_month |-> day_of_month,
     month |-> month, day_of_week |-> day_of_week]

(***************************************************************************)
(* parse.py                                                                *)
(***************************************************************************)
EXPECTED_FIELD_COUNT == 5

\* ValueError(f"{expr!r} is not valid cron expression."), raised from cause
invalid_cron_expression(e, cause) ==
    Raise("ValueError",
          repr(e) \o <<" ","i","s"," ","n","o","t"," ","v","a","l","i","d"," ","c","r","o","n"," ",
                       "e","x","p","r","e","s","s","i","o","n",".">>,
          cause)

\* a, b = pieces: the ValueError of a two-name unpacking of more pieces
TooManyValues ==
    Raise("ValueError",
          <<"t","o","o"," ","m","a","n","y"," ","v","a","l","u","e","s"," ","t","o"," ",
            "u","n","p","a","c","k"," ","(","e","x","p","e","c","t","e","d"," ","2",")">>,
          None)

\* range(a, b, 0)
ZeroStep ==
    Raise("ValueError",
          <<"r","a","n","g","e","(",")"," ","a","r","g"," ","3"," ","m","u","s","t"," ",
            "n","o","t"," ","b","e"," ","z","e","r","o">>,
          None)

\* (value_expr, step_expr) of one token
expr_to_parts(e) ==
    IF Contains(e, "/")
    THEN With(split(e, "/"), LAMBDA pieces :
             IF Len(pieces) # 2 THEN TooManyValues
             ELSE IF ~isdigit(pieces[2]) THEN invalid_cron_expression(e, None)
             ELSE Return(<<pieces[1], DigitsValue(pieces[2])>>))
    ELSE Return(<<e, 1>>)

\* str(transform_map[x]) if x in transform_map, else x
resolve_alias(x, transform_map) ==
    IF x \in DOMAIN transform_map THEN str(transform_map[x]) ELSE x

\* the "-" branch of _parse_part
parse_range(part, value_expr, step_expr, allowed, transform_map) ==
    With(split(value_expr, "-"), LAMBDA pieces :
        IF Len(pieces) # 2 THEN TooManyValues
        ELSE With(int(resolve_alias(pieces[1], transform_map)), LAMBDA start :
             IF ~start.ok THEN start
             ELSE With(int(resolve_alias(pieces[2], transform_map)), LAMBDA end :
                  IF ~end.ok THEN end
                  ELSE IF ~In(start.val, allowed) \/ ~In(end.val, allowed)
                       THEN invalid_cron_expression(part, None)
                  ELSE IF step_expr = 0 THEN ZeroStep
                  ELSE Return(range(start.val, end.val + 1, step_expr)))))

\* a mutant of step_out_of_range: a step equal to len(allowed) passes
step_over_range(step_expr, allowed) == step_expr > Len(allowed)

\* step_expr >= len(allowed)
step_out_of_range(step_expr, allowed) == step_expr >= Len(allowed)

\* the values of one comma-free token
parse_part(part, allowed, transform_map) ==
    With(expr_to_parts(part), LAMBDA parts :
        IF ~parts.ok THEN parts
        ELSE With(parts.val[2], LAMBDA step_expr :
             With(resolve_alias(parts.val[1], transform_map), LAMBDA value_expr :
                 IF step_out_of_range(step_expr, allowed)
                 THEN invalid_cron_expression(part, None)
                 ELSE IF isdigit(value_expr)
                      THEN IF step_expr # 1 \/ ~In(DigitsValue(value_expr), allowed)
                           THEN invalid_cron_expression(part, None)
                           ELSE Return(<<DigitsValue(value_expr)>>)
                 ELSE IF value_expr = <<"*">>
                      THEN IF step_expr = 0 THEN ZeroStep
                           ELSE Return(range(allowed[1], allowed[Len(allowed)] + 1, step_expr))
                 ELSE IF Contains(value_expr, "-")
                      THEN parse_range(part, value_expr, step_expr, allowed, transform_map)
                 ELSE invalid_cron_expression(part, None))))

RECURSIVE parse_parts(_, _, _, _)
\* the loop of _parse_expression: the set after the remaining parts, or the
\* first exception
parse_parts(parts, result, allowed, transform_map) ==
    IF Len(parts) = 0 THEN Return(result)
    ELSE With(parse_part(Head(parts), allowed, transform_map), LAMBDA values :
             IF ~values.ok THEN values
             ELSE parse_parts(Tail(parts), result \cup ToSet(values.val),
                              allowed, transform_map))

\* one comma-delimited field
parse_expression(e, allowed, transform_map) ==
    With(parse_parts(split(e, ","), {}, allowed, transform_map), LAMBDA result :
        IF ~result.ok THEN invalid_cron_expression(e, result)
        ELSE Return(sorted(result.val)))

RECURSIVE parse_fields(_, _, _)
\* the keyword arguments of CronSchedule(...), evaluated in order: the tuples
\* so far, or the first exception
parse_fields(expression_parts, i, done) ==
    IF i > Len(expression_parts) THEN Return(done)
    ELSE With(parse_expression(expression_parts[i], FIELD_RANGES[FieldNames[i]],
                               TransformMaps[FieldNames[i]]), LAMBDA values :
             IF ~values.ok THEN values
             ELSE parse_fields(expression_parts, i + 1, Append(done, values.val)))

\* minutes, hours, day_of_month, month, day_of_week = expression_parts
unpack_error(expression_parts) ==
    IF Len(expression_parts) > 5
    THEN Raise("ValueError",
               <<"t","o","o"," ","m","a","n","y"," ","v","a","l","u","e","s"," ","t","o"," ",
                 "u","n","p","a","c","k"," ","(","e","x","p","e","c","t","e","d"," ","5",")">>,
               None)
    ELSE Raise("ValueError",
               <<"n","o","t"," ","e","n","o","u","g","h"," ","v","a","l","u","e","s"," ","t","o"," ",
                 "u","n","p","a","c","k"," ","(","e","x","p","e","c","t","e","d"," ","5",","," ",
                 "g","o","t"," ">> \o str(Len(expression_parts)) \o <<")">>,
               None)

\* the try block of parse: the five fields, or the wrapped exception
parse_try(e, expression_parts) ==
    With(parse_fields(expression_parts, 1, <<>>), LAMBDA fields :
        IF ~fields.ok THEN invalid_cron_expression(e, fields)
        ELSE Return(CronSchedule(fields.val[1], fields.val[2], fields.val[3],
                                 fields.val[4], fields.val[5])))

\* a mutant of wrong_field_count: only too few tokens are rejected
wrong_field_count_too_few(expression_parts) ==
    Len(expression_parts) < EXPECTED_FIELD_COUNT

\* len(expression_parts) != EXPECTED_FIELD_COUNT
wrong_field_count(expression_parts) ==
    Len(expression_parts) # EXPECTED_FIELD_COUNT

\* a mutant of parse: a field's exception is not wrapped again
parse_unwrapped(e) ==
    With(split_whitespace(e), LAMBDA expression_parts :
        IF wrong_field_count(expression_parts) THEN invalid_cron_expression(e, None)
        ELSE IF Len(expression_parts) # 5 THEN unpack_error(expression_parts)
        ELSE With(parse_try(e, expression_parts), LAMBDA wrapped :
                 IF wrapped.ok THEN wrapped ELSE wrapped.cause))

parse(e) ==
    With(split_whitespace(e), LAMBDA expression_parts :
        IF wrong_field_count(expression_parts) THEN invalid_cron_expression(e, None)
        ELSE IF Len(expression_parts) # 5 THEN unpack_error(expression_parts)
        ELSE parse_try(e, expression_parts))

(***************************************************************************)
(* common.py: the tables explain reads                                     *)
(***************************************************************************)
DAY_INDEX_TO_NAME ==
    (0 :> <<"S","u","n","d","a","y">>)
    @@ (1 :> <<"M","o","n","d","a","y">>)
    @@ (2 :> <<"T","u","e","s","d","a","y">>)
    @@ (3 :> <<"W","e","d","n","e","s","d","a","y">>)
    @@ (4 :> <<"T","h","u","r","s","d","a","y">>)
    @@ (5 :> <<"F","r","i","d","a","y">>)
    @@ (6 :> <<"S","a","t","u","r","d","a","y">>)

MONTH_INDEX_TO_NAME ==
    (1 :> <<"J","a","n","u","a","r","y">>)
    @@ (2 :> <<"F","e","b","r","u","a","r","y">>)
    @@ (3 :> <<"M","a","r","c","h">>)
    @@ (4 :> <<"A","p","r","i","l">>)
    @@ (5 :> <<"M","a","y">>)
    @@ (6 :> <<"J","u","n","e">>)
    @@ (7 :> <<"J","u","l","y">>)
    @@ (8 :> <<"A","u","g","u","s","t">>)
    @@ (9 :> <<"S","e","p","t","e","m","b","e","r">>)
    @@ (10 :> <<"O","c","t","o","b","e","r">>)
    @@ (11 :> <<"N","o","v","e","m","b","e","r">>)
    @@ (12 :> <<"D","e","c","e","m","b","e","r">>)

ORDINAL_SUFFIXES == (1 :> <<"s","t">>) @@ (2 :> <<"n","d">>) @@ (3 :> <<"r","d">>)

(***************************************************************************)
(* explain.py                                                              *)
(***************************************************************************)
\* _WEEKDAYS = tuple(range(1, 6))
WEEKDAYS == range(1, 6, 1)

\* _ORDINAL_EXCEPTION_RANGE = range(10, 21)
ORDINAL_EXCEPTION_RANGE == range(10, 21, 1)

MAX_DISCRETE_TIMES == 3

\* the argument of explain: a Python object with its type
PyStr(s) == [type |-> "str", value |-> s]

PySchedule(schedule) == [type |-> "CronSchedule", value |-> schedule]

\* values[0] or values[-1] of an empty tuple
IndexError ==
    Raise("IndexError",
          <<"t","u","p","l","e"," ","i","n","d","e","x"," ","o","u","t"," ","o","f"," ",
            "r","a","n","g","e">>,
          None)

\* f"{n:02d}"
Format02d(n) == IF 0 <= n /\ n < 10 THEN <<"0">> \o str(n) ELSE str(n)

\* s.startswith(prefix)
startswith(s, prefix) ==
    Len(s) >= Len(prefix) /\ SubSeq(s, 1, Len(prefix)) = prefix

\* s.replace(old, new, 1)
replace_first(s, old, new) ==
    With({i \in 1..Len(s) - Len(old) + 1 : SubSeq(s, i, i + Len(old) - 1) = old},
         LAMBDA hits :
             IF hits = {} THEN s
             ELSE With(CHOOSE k \in hits : \A j \in hits : k <= j, LAMBDA i :
                      SubSeq(s, 1, i - 1) \o new \o SubSeq(s, i + Len(old), Len(s))))

RECURSIVE lstrip(_)
lstrip(s) == IF Len(s) > 0 /\ Head(s) \in Whitespace THEN lstrip(Tail(s)) ELSE s

RECURSIVE rstrip(_)
rstrip(s) ==
    IF Len(s) > 0 /\ s[Len(s)] \in Whitespace THEN rstrip(SubSeq(s, 1, Len(s) - 1)) ELSE s

\* s.strip()
strip(s) == rstrip(lstrip(s))

\* repr of a tuple of ints: (), (5,), (0, 1, 3)
repr_tuple(values) ==
    IF Len(values) = 1 THEN <<"(">> \o str(values[1]) \o <<",", ")">>
    ELSE <<"(">> \o join(<<",", " ">>, [i \in 1..Len(values) |-> str(values[i])]) \o <<")">>

\* str(schedule) of the NamedTuple
str_schedule(schedule) ==
    <<"C","r","o","n","S","c","h","e","d","u","l","e","(","m","i","n","u","t","e","=">>
    \o repr_tuple(schedule.minute)
    \o <<","," ","h","o","u","r","=">> \o repr_tuple(schedule.hour)
    \o <<","," ","d","a","y","_","o","f","_","m","o","n","t","h","=">>
    \o repr_tuple(schedule.day_of_month)
    \o <<","," ","m","o","n","t","h","=">> \o repr_tuple(schedule.month)
    \o <<","," ","d","a","y","_","o","f","_","w","e","e","k","=">>
    \o repr_tuple(schedule.day_of_week) \o <<")">>

\* f"{spec}"
format_spec(spec) ==
    IF spec.type = "str" THEN spec.value ELSE str_schedule(spec.value)

ensure_cron_schedule(spec) ==
    IF spec.type = "str" THEN parse(spec.value)
    ELSE IF spec.type = "CronSchedule" THEN Return(spec.value)
    ELSE Raise("TypeError",
               <<"s","p","e","c"," ","m","u","s","t"," ","b","e"," ","a"," ","c","r","o","n"," ",
                 "s","t","r","i","n","g"," ","o","r"," ","C","r","o","n","S","c","h","e","d","u","l","e">>,
               None)

format_time(hours, minutes) == Format02d(hours) \o <<":">> \o Format02d(minutes)

as_ordinal(n) ==
    IF In(n, ORDINAL_EXCEPTION_RANGE) THEN str(n) \o <<"t","h">>
    ELSE IF (n % 10) \in DOMAIN ORDINAL_SUFFIXES THEN str(n) \o ORDINAL_SUFFIXES[n % 10]
    ELSE str(n) \o <<"t","h">>

join_list(items) ==
    IF Len(items) = 0 THEN <<>>
    ELSE IF Len(items) = 1 THEN items[1]
    ELSE join(<<",", " ">>, SubSeq(items, 1, Len(items) - 1))
         \o <<" ","a","n","d"," ">> \o items[Len(items)]

is_contiguous(values) == \A i \in 1..Len(values) - 1 : values[i + 1] - values[i] = 1

\* an int, or None when the step varies or there are no values
uniform_step(values) ==
    IF Len(values) = 0 THEN None
    ELSE IF Len(values) = 1 THEN Some(1)
    ELSE LET steps == {values[i + 1] - values[i] : i \in 1..Len(values) - 1}
         IN  IF Cardinality(steps) = 1 THEN Some(CHOOSE d \in steps : TRUE) ELSE None

\* "step and step > 1" of an Optional int
StepOverOne(step) == step # None /\ step.some # 0 /\ step.some > 1

is_full_range(values, allowed) == values = allowed

is_full_stepped_cover(values, allowed, step) ==
    IF Len(values) = 0 \/ values[1] # 0 THEN FALSE
    ELSE values = range(0, allowed[Len(allowed)] + 1, step)

summarize_full_range_time(minute, hour) ==
    With(uniform_step(minute), LAMBDA step :
        IF StepOverOne(step)
        THEN <<"E","v","e","r","y"," ">> \o str(step.some) \o <<" ","m","i","n","u","t","e","s">>
        ELSE IF is_contiguous(minute) THEN <<"E","v","e","r","y"," ","m","i","n","u","t","e">>
        ELSE IF Len(minute) = 1
             THEN <<"A","t"," ">> \o Format02d(minute[1])
                  \o <<" ","e","v","e","r","y"," ","h","o","u","r">>
        ELSE <<"A","t"," ">>
             \o join(<<",", " ">>, [i \in 1..Len(minute) - 1 |-> str(minute[i])])
             \o <<" ","a","n","d"," ">> \o str(minute[Len(minute)])
             \o <<" ","m","i","n","u","t","e">>
             \o <<" ","e","v","e","r","y"," ","h","o","u","r">>)

\* a phrase, or None
summarize_simple_exact_times(minute, hour) ==
    With(minute[1], LAMBDA m :
    With(uniform_step(hour), LAMBDA step :
        IF /\ m = 0 /\ Len(hour) > 1
           /\ step # None /\ step.some # 0 /\ hour[1] = 0
           /\ is_full_stepped_cover(hour, FIELD_RANGES.hours, step.some)
        THEN Some(<<"E","v","e","r","y"," ">> \o str(step.some) \o <<" ","h","o","u","r","s">>)
        ELSE IF m = 0 /\ Len(hour) > 1 /\ Len(hour) <= MAX_DISCRETE_TIMES
             THEN Some(<<"A","t"," ">>
                       \o join_list([i \in 1..Len(hour) |-> format_time(hour[i], m)]))
        ELSE IF Len(hour) = 1 THEN Some(<<"A","t"," ">> \o format_time(hour[1], m))
        ELSE None))

summarize_contiguous_times(minute, hour) ==
    With(uniform_step(minute), LAMBDA step :
        IF StepOverOne(step) /\ Len(hour) >= 1
        THEN <<"E","v","e","r","y"," ">> \o str(step.some) \o <<" ","m","i","n","u","t","e","s">>
             \o <<" ","f","r","o","m"," ">> \o format_time(hour[1], 0)
             \o <<" ","t","o"," ">> \o format_time(hour[Len(hour)], 59)
        ELSE <<"E","v","e","r","y"," ","m","i","n","u","t","e"," ","b","e","t","w","e","e","n"," ">>
             \o format_time(hour[1], minute[1])
             \o <<" ","a","n","d"," ">> \o format_time(hour[Len(hour)], minute[Len(minute)]))

\* a phrase, or None
summarize_uniform_step(minute, hour, step) ==
    IF is_contiguous(hour) /\ Len(hour) >= 1
    THEN Some(<<"E","v","e","r","y"," ">> \o str(step) \o <<" ","m","i","n","u","t","e","s">>
              \o <<" ","f","r","o","m"," ">> \o format_time(hour[1], 0)
              \o <<" ","t","o"," ">> \o format_time(hour[Len(hour)], 59))
    ELSE IF Len(hour) <= MAX_DISCRETE_TIMES
         THEN Some(<<"E","v","e","r","y"," ">> \o str(step) \o <<" ","m","i","n","u","t","e","s">>
                   \o <<" ","i","n"," ">>
                   \o join_list([i \in 1..Len(hour) |->
                                    format_time(hour[i], 0) \o <<"-">> \o format_time(hour[i], 59)]))
    ELSE None

summarize_time(minute, hour) ==
    IF is_full_range(hour, FIELD_RANGES.hours) /\ Len(minute) # 0
    THEN summarize_full_range_time(minute, hour)
    ELSE With(IF Len(minute) = 1 THEN summarize_simple_exact_times(minute, hour) ELSE None,
              LAMBDA exact :
        IF exact # None THEN exact.some
        ELSE IF is_contiguous(minute) /\ is_contiguous(hour) /\ Len(minute) > 1 /\ Len(hour) >= 1
             THEN summarize_contiguous_times(minute, hour)
        ELSE With(uniform_step(minute), LAMBDA step :
             With(IF StepOverOne(step) /\ Len(hour) # 0
                  THEN summarize_uniform_step(minute, hour, step.some) ELSE None,
                  LAMBDA stepped :
                      IF stepped # None THEN stepped.some ELSE <<>>)))

\* bits with the weekday qualifier appended, or the exception
summarize_non_full_dow(bits, dow) ==
    IF dow = WEEKDAYS THEN Return(Append(bits, <<"o","n"," ","w","e","e","k","d","a","y","s">>))
    ELSE IF dow = <<0, 6>>
         THEN Return(Append(bits, <<"o","n"," ","w","e","e","k","e","n","d","s">>))
    ELSE IF Len(dow) = 1 THEN Return(Append(bits, <<"o","n"," ">> \o DAY_INDEX_TO_NAME[dow[1]]))
    ELSE IF is_contiguous(dow)
         THEN IF Len(dow) = 0 THEN IndexError
              ELSE Return(Append(bits, <<"o","n"," ">> \o DAY_INDEX_TO_NAME[dow[1]]
                                       \o <<" ","t","o"," ">> \o DAY_INDEX_TO_NAME[dow[Len(dow)]]))
    ELSE Return(Append(bits, <<"o","n"," ">>
                             \o join_list([i \in 1..Len(dow) |-> DAY_INDEX_TO_NAME[dow[i]]])))

\* bits with the day-of-month qualifier appended, or the exception
summarize_non_full_dom(bits, dom, month) ==
    With([i \in 1..Len(dom) |-> as_ordinal(dom[i])], LAMBDA ords :
        IF Len(dom) = 1 /\ is_full_range(month, FIELD_RANGES.month)
        THEN Return(Append(bits, <<"o","n"," ","t","h","e"," ">> \o as_ordinal(dom[1])
                                 \o <<" ","o","f"," ","e","a","c","h"," ","m","o","n","t","h">>))
        ELSE IF Len(dom) = 1
             THEN Return(Append(bits, <<"o","n"," ","t","h","e"," ">> \o as_ordinal(dom[1])))
        ELSE IF is_contiguous(dom)
             THEN IF Len(dom) = 0 THEN IndexError
                  ELSE Return(Append(bits, <<"f","r","o","m"," ","t","h","e"," ">>
                                           \o as_ordinal(dom[1])
                                           \o <<" ","t","o"," ","t","h","e"," ">>
                                           \o as_ordinal(dom[Len(dom)])))
        ELSE IF is_full_range(month, FIELD_RANGES.month)
             THEN Return(Append(bits, <<"o","n"," ","t","h","e"," ">> \o join_list(ords)
                                      \o <<" ","o","f"," ","e","a","c","h"," ","m","o","n","t","h">>))
        ELSE Return(Append(bits, <<"o","n"," ","t","h","e"," ">> \o join_list(ords))))

\* bits with the month qualifier appended, or the exception
summarize_non_full_month(bits, month) ==
    IF is_contiguous(month)
    THEN IF Len(month) = 0 THEN IndexError
         ELSE Return(Append(bits, <<"d","u","r","i","n","g"," ">> \o MONTH_INDEX_TO_NAME[month[1]]
                                  \o <<" ","t","o"," ">> \o MONTH_INDEX_TO_NAME[month[Len(month)]]))
    ELSE Return(Append(bits, <<"i","n"," ">>
                             \o join_list([i \in 1..Len(month) |-> MONTH_INDEX_TO_NAME[month[i]]])))

\* the list of qualifiers, or the exception
summarize_calendar(dom, month, dow) ==
    With(IF ~is_full_range(dow, FIELD_RANGES.day_of_week)
         THEN summarize_non_full_dow(<<>>, dow)
         ELSE Return(<<>>), LAMBDA afterDow :
        IF ~afterDow.ok THEN afterDow
        ELSE With(IF ~is_full_range(dom, FIELD_RANGES.day_of_month)
                  THEN summarize_non_full_dom(afterDow.val, dom, month)
                  ELSE afterDow, LAMBDA afterDom :
                 IF ~afterDom.ok THEN afterDom
                 ELSE IF ~is_full_range(month, FIELD_RANGES.month)
                      THEN summarize_non_full_month(afterDom.val, month)
                 ELSE afterDom))

\* a mutant of sentence_of: "Every day at" whenever the time phrase starts
\* with "At ", calendar qualifiers or not
sentence_of_every_day_always(time_phrase, calendar_bits) ==
    IF startswith(time_phrase, <<"A","t"," ">>)
    THEN <<"E","v","e","r","y"," ","d","a","y"," ">>
         \o replace_first(time_phrase, <<"A","t"," ">>, <<"a","t"," ">>)
    ELSE strip(join(<<" ">>,
                    (IF Len(time_phrase) # 0 THEN <<time_phrase>> ELSE <<>>)
                    \o (IF Len(calendar_bits) # 0
                        THEN <<join(<<" ">>, calendar_bits)>> ELSE <<>>)))

\* the sentence before the final period
sentence_of(time_phrase, calendar_bits) ==
    IF startswith(time_phrase, <<"A","t"," ">>) /\ Len(calendar_bits) = 0
    THEN <<"E","v","e","r","y"," ","d","a","y"," ">>
         \o replace_first(time_phrase, <<"A","t"," ">>, <<"a","t"," ">>)
    ELSE strip(join(<<" ">>,
                    (IF Len(time_phrase) # 0 THEN <<time_phrase>> ELSE <<>>)
                    \o (IF Len(calendar_bits) # 0
                        THEN <<join(<<" ">>, calendar_bits)>> ELSE <<>>)))

explain(spec) ==
    With(ensure_cron_schedule(spec), LAMBDA schedule :
        IF ~schedule.ok THEN schedule
        ELSE With(summarize_time(schedule.val.minute, schedule.val.hour),
                  LAMBDA time_phrase :
             With(summarize_calendar(schedule.val.day_of_month, schedule.val.month,
                                     schedule.val.day_of_week), LAMBDA calendar_bits :
                 IF ~calendar_bits.ok THEN calendar_bits
                 ELSE With(sentence_of(time_phrase, calendar_bits.val), LAMBDA sentence :
                          IF Len(sentence) = 0
                          THEN Raise("NotImplementedError",
                                     <<"C","a","n","n","o","t"," ","g","e","n","e","r","a","t","e"," ",
                                       "e","x","p","l","a","n","a","t","i","o","n"," ","f","o","r"," ">>
                                     \o format_spec(spec)
                                     \o <<" ","r","i","g","h","t"," ","n","o","w">>,
                                     None)
                          ELSE Return(sentence \o <<".">>)))))

(***************************************************************************)
(* cron_util.py: the facade                                                *)
(***************************************************************************)
CronUtil_parse(e) == parse(e)

CronUtil_explain(spec) == explain(spec)

(***************************************************************************)
(* The expressions a caller passes: built from the cron syntax, with       *)
(* values taken at and around the ends of each field's allowed range.      *)
(***************************************************************************)
\* the longest comma-separated list in a generated field
MaxParts == 2

\* the most whitespace-separated tokens in a generated expression
MaxTokens == 6

\* the asynchronous calls in flight at once
MaxTasks == 2

Star == <<"*">>

Lit(n) == str(n)

Rng(a, b) == str(a) \o <<"-">> \o str(b)

Step(base, n) == base \o <<"/">> \o str(n)

List(items) == join(<<",">>, items)

Words(items) == join(<<" ">>, items)

Lo(f) == FIELD_RANGES[f][1]

Hi(f) == FIELD_RANGES[f][Len(FIELD_RANGES[f])]

\* base expressions of a sub-token: wildcard, literals, ranges, aliases, junk
Bases(f) ==
    {Star, Lit(Lo(f)), Lit(Hi(f)), Lit(Hi(f) + 1), Lit(0),
     Rng(Lo(f), Hi(f)), Rng(Lo(f) + 1, Lo(f) + 3), Rng(Lo(f) + 3, Lo(f) + 1),
     Rng(Lo(f), Hi(f) + 1), Rng(Hi(f) + 1, Hi(f) + 2),
     <<"J","A","N">>, <<"M","O","N">>, <<"J","A","N","-","M","A","R">>,
     <<"M","O","N","-","F","R","I">>, <<"F","R","I","-","M","O","N">>,
     <<"J","A","N","U","A","R","Y">>, <<"j","a","n">>,
     <<>>, <<"1","-","2","-","3">>, <<"-","1">>, <<"+","1","-","5">>,
     <<"1","_","0","-","1","1">>, <<"*","-","5">>}

\* the text after "/": steps at and around the ends of 0..len(allowed), junk
StepTexts(f) ==
    {str(n) : n \in {0, 1, 2, Len(FIELD_RANGES[f]) - 1, Len(FIELD_RANGES[f]),
                     Len(FIELD_RANGES[f]) + 1}}
    \cup {<<>>, <<"x">>, <<"1","/","2">>}

SubTokens(f) ==
    Bases(f) \cup {b \o <<"/">> \o t : b \in Bases(f), t \in StepTexts(f)}

\* the sub-tokens that generated lists are made of
ListTokens(f) ==
    {Lit(Lo(f)), Lit(Hi(f)), Lit(Hi(f) + 1), Rng(Lo(f) + 1, Lo(f) + 3),
     Rng(Lo(f) + 3, Lo(f) + 1), Step(Star, 2)}

\* the sequences over S of length lo..hi
SeqsOf(S, lo, hi) == UNION {[1..n -> S] : n \in lo..hi}

FieldStrings(f) ==
    SubTokens(f) \cup {List(l) : l \in SeqsOf(ListTokens(f), 2, MaxParts)}

\* one field varies, the others are "*"
FieldVariants ==
    {Words([j \in 1..5 |-> IF j = i THEN x ELSE Star]) :
        i \in 1..5, x \in UNION {FieldStrings(FieldNames[k]) : k \in 1..5}}

MinutePool ==
    {Star, Lit(0), Lit(5), Step(Star, 15), Rng(15, 30), Rng(5, 3),
     List(<<Lit(0), Lit(30)>>), List(<<Lit(0), Lit(1), Lit(3)>>)}

HourPool ==
    {Star, Lit(8), Rng(9, 17), Rng(5, 3), Step(Star, 8),
     List(<<Lit(9), Lit(17)>>), List(<<Lit(0), Lit(5), Lit(7), Lit(9)>>)}

DomPool == {Star, Lit(1), Rng(1, 3), List(<<Lit(1), Lit(15)>>)}

MonthPool == {Star, Lit(6), Rng(1, 3), List(<<Lit(2), Lit(4), Lit(6)>>)}

DowPool == {Star, Lit(5), Rng(1, 5), List(<<Lit(0), Lit(6)>>), List(<<Lit(1), Lit(3), Lit(5)>>)}

\* every minute and hour shape, under a few calendars
TimeVariants ==
    {Words(<<m, h>>) \o <<" ">> \o c :
        m \in MinutePool, h \in HourPool,
        c \in {Words(<<Star, Star, Star>>), Words(<<Lit(1), Star, Star>>),
               Words(<<Star, Rng(1, 3), Rng(1, 5)>>)}}

\* every calendar shape, under a few times of day
CalendarVariants ==
    {t \o <<" ">> \o Words(<<d, m, w>>) :
        t \in {Words(<<Star, Star>>), Words(<<Lit(0), Lit(8)>>),
               Words(<<Lit(5), List(<<Lit(9), Lit(17)>>)>>)},
        d \in DomPool, m \in MonthPool, w \in DowPool}

\* 0..MaxTokens tokens, and other whitespace than single spaces
CountVariants ==
    {Words([j \in 1..n |-> x]) : n \in 0..MaxTokens, x \in {Star, Lit(0), <<"x">>}}
    \cup {<<" ">> \o Words([j \in 1..n |-> Star]) \o <<" ">> : n \in 0..MaxTokens}
    \cup {<<"*","\t","*"," "," ","*","\n","*"," ","*","\n">>,
          <<"i","t","'","s"," ","*"," ","*"," ","*"," ","*">>,
          <<"'","\""," ","*"," ","*"," ","*"," ","*">>,
          <<"a","\\","b"," ","*"," ","*"," ","*"," ","*">>}

Expressions == FieldVariants \cup TimeVariants \cup CalendarVariants \cup CountVariants

(***************************************************************************)
(* The synchronous caller: it holds one expression and calls the facade.   *)
(***************************************************************************)
NoTasks == <<>>

Init ==
    /\ expression \in Expressions
    /\ parsed = None
    /\ explained = None
    /\ explainedSchedule = None
    /\ tasks = NoTasks

\* parsed = CronUtil.parse(expression)
Parse ==
    /\ parsed = None
    /\ parsed' = CronUtil_parse(expression)
    /\ UNCHANGED <<expression, explained, explainedSchedule, tasks>>

\* explained = CronUtil.explain(expression)
Explain ==
    /\ explained = None
    /\ explained' = CronUtil_explain(PyStr(expression))
    /\ UNCHANGED <<expression, parsed, explainedSchedule, tasks>>

\* explainedSchedule = CronUtil.explain(schedule), schedule the one parse returned
ExplainSchedule ==
    /\ parsed # None
    /\ parsed.ok
    /\ explainedSchedule = None
    /\ explainedSchedule' = CronUtil_explain(PySchedule(parsed.val))
    /\ UNCHANGED <<expression, parsed, explained, tasks>>

Next == Parse \/ Explain \/ ExplainSchedule

Spec == Init /\ [][Next]_vars

(***************************************************************************)
(* The asynchronous entry points: each call hands its synchronous function *)
(* to a worker thread (asyncio.to_thread) and awaits the future once.      *)
(***************************************************************************)
\* what async_parse hands to asyncio.to_thread: parse, expression
async_parse(e) == parse(e)

\* a mutant of async_explain: the worker's exception reaches the caller
\* wrapped in another one
async_explain_rewrapped(spec) ==
    With(explain(spec), LAMBDA outcome :
        IF outcome.ok THEN outcome ELSE Raise("RuntimeError", outcome.msg, outcome))

\* what async_explain hands to asyncio.to_thread: explain, spec
async_explain(spec) == explain(spec)

\* CronUtil.parse_async awaits async_parse(expression)
CronUtil_parse_async(e) == async_parse(e)

\* CronUtil.async_explain awaits async_explain(spec)
CronUtil_async_explain(spec) == async_explain(spec)

ParseEntries == {"async_parse", "CronUtil.parse_async"}

ExplainEntries == {"async_explain", "CronUtil.async_explain"}

\* the call the worker thread runs for a task
worker_call(entry, arg) ==
    CASE entry = "async_parse" -> async_parse(arg.value)
      [] entry = "CronUtil.parse_async" -> CronUtil_parse_async(arg.value)
      [] entry = "async_explain" -> async_explain(arg)
      [] entry = "CronUtil.async_explain" -> CronUtil_async_explain(arg)

\* expressions passed to the asynchronous calls: explainable, accepted but
\* not explainable, rejected
AsyncExpressions ==
    {Words(<<Lit(0), Lit(8), Star, Star, Star>>),
     Words(<<Lit(5), List(<<Lit(9), Lit(17)>>), Star, Star, Star>>),
     Words(<<Lit(0), Lit(24), Star, Star, Star>>)}

\* a schedule built by the caller, passed to async_explain
AsyncSchedules == {CronSchedule(<<30>>, <<14>>, <<1, 15>>, <<6>>, <<0, 6>>)}

AsyncArgs(entry) ==
    IF entry \in ParseEntries THEN {PyStr(e) : e \in AsyncExpressions}
    ELSE {PyStr(e) : e \in AsyncExpressions} \cup {PySchedule(x) : x \in AsyncSchedules}

Idle == [pc |-> "idle", entry |-> "", arg |-> None, future |-> None, result |-> None]

InitAsync ==
    /\ expression = <<>>
    /\ parsed = None
    /\ explained = None
    /\ explainedSchedule = None
    /\ tasks = [t \in 1..MaxTasks |-> Idle]

\* the coroutine starts and asyncio.to_thread submits the call
AsyncCall(t) ==
    /\ tasks[t].pc = "idle"
    /\ \E entry \in ParseEntries \cup ExplainEntries :
        \E arg \in AsyncArgs(entry) :
            tasks' = [tasks EXCEPT ![t] =
                         [pc |-> "submitted", entry |-> entry, arg |-> arg,
                          future |-> None, result |-> None]]
    /\ UNCHANGED <<expression, parsed, explained, explainedSchedule>>

\* a worker thread runs the call and sets the future's result or exception
WorkerRun(t) ==
    /\ tasks[t].pc = "submitted"
    /\ tasks' = [tasks EXCEPT ![t].pc = "done",
                              ![t].future = worker_call(tasks[t].entry, tasks[t].arg)]
    /\ UNCHANGED <<expression, parsed, explained, explainedSchedule>>

\* the event loop resumes the coroutine: the await returns the future's
\* result or raises its exception, and the coroutine ends with it
Resume(t) ==
    /\ tasks[t].pc = "done"
    /\ tasks' = [tasks EXCEPT ![t].pc = "returned", ![t].result = tasks[t].future]
    /\ UNCHANGED <<expression, parsed, explained, explainedSchedule>>

NextAsync == \E t \in 1..MaxTasks : AsyncCall(t) \/ WorkerRun(t) \/ Resume(t)

SpecAsync == InitAsync /\ [][NextAsync]_vars

(***************************************************************************)
(* The claims, each with the case it is about.                             *)
(***************************************************************************)
NotValidMessage(e) ==
    repr(e) \o <<" ","i","s"," ","n","o","t"," ","v","a","l","i","d"," ","c","r","o","n"," ",
                 "e","x","p","r","e","s","s","i","o","n",".">>

\* the number of maximal runs of non-whitespace characters
TokenCount(s) ==
    Cardinality({i \in 1..Len(s) :
                    s[i] \notin Whitespace /\ (i = 1 \/ s[i - 1] \in Whitespace)})

FieldsOf(schedule) ==
    <<schedule.minute, schedule.hour, schedule.day_of_month, schedule.month,
      schedule.day_of_week>>

AllFieldsNonEmpty(schedule) == \A i \in 1..5 : Len(FieldsOf(schedule)[i]) > 0

\* C1: for every expression parse accepts, explain never ends in the "cannot
\* explain" NotImplementedError. Stated for the accepted expressions whose
\* five fields all hold a value, so that the empty fields of C2 play no part.
C1_CannotExplainNeverReached ==
    (parsed # None /\ parsed.ok /\ AllFieldsNonEmpty(parsed.val) /\ explained # None)
        => (explained.ok \/ explained.exc # "NotImplementedError")

\* C2: every schedule a successful parse returns has five non-empty fields.
C2_FieldsNeverEmpty ==
    (parsed # None /\ parsed.ok) => AllFieldsNonEmpty(parsed.val)

\* C3: after a successful parse each field is strictly ascending and every
\* value lies in the field's allowed range.
C3_FieldsAscendingInRange ==
    (parsed # None /\ parsed.ok) =>
        \A i \in 1..5 :
            LET values == FieldsOf(parsed.val)[i]
                allowed == FIELD_RANGES[FieldNames[i]]
            IN  /\ \A k \in 1..Len(values) - 1 : values[k] < values[k + 1]
                /\ \A k \in 1..Len(values) :
                       allowed[1] <= values[k] /\ values[k] <= allowed[Len(allowed)]

\* C3's case: a list given out of order is returned sorted.
C3_Witness ==
    /\ expression = Words(<<List(<<Lit(59), Lit(0)>>), Star, Star, Star, Star>>)
    /\ parsed # None /\ parsed.ok
    /\ parsed.val.minute = <<0, 59>>

\* C4: parse returns a schedule or fails with a ValueError whose message is
\* the repr of the whole expression followed by " is not valid cron
\* expression.", whatever failed inside.
C4_OnlyInvalidExpression ==
    parsed # None =>
        \/ parsed.ok
        \/ /\ parsed.exc = "ValueError"
           /\ parsed.msg = NotValidMessage(expression)

\* C4's case: a sub-token failed, was wrapped as its field's failure, and
\* that was wrapped as the expression's, each with its own text.
C4_Witness ==
    /\ parsed # None /\ ~parsed.ok
    /\ parsed.cause # None /\ parsed.cause.cause # None
    /\ parsed.cause.cause.msg # parsed.msg

\* the sub-tokens of field i of a five-token expression
SubTokensOf(e, i) == ToSet(split(split_whitespace(e)[i], ","))

\* the sub-token has a step of digits that is 0 or at least len(allowed)
HasBadStep(token, allowed) ==
    /\ Len(split(token, "/")) = 2
    /\ isdigit(split(token, "/")[2])
    /\ \/ DigitsValue(split(token, "/")[2]) = 0
       \/ DigitsValue(split(token, "/")[2]) >= Len(allowed)

\* C5: a sub-token whose step is 0 or at least the size of its field's range
\* makes parse fail as an invalid expression, in any field, on any base.
C5_BadStepRejected ==
    (/\ parsed # None
     /\ TokenCount(expression) = 5
     /\ \E i \in 1..5 : \E token \in SubTokensOf(expression, i) :
            HasBadStep(token, FIELD_RANGES[FieldNames[i]]))
        => (~parsed.ok /\ parsed.exc = "ValueError"
            /\ parsed.msg = NotValidMessage(expression))

\* C5's case: a range with step 0 passed the step check and failed in range().
C5_Witness ==
    /\ parsed # None /\ ~parsed.ok
    /\ parsed.cause # None /\ parsed.cause.cause # None
    /\ parsed.cause.cause = ZeroStep
    /\ \E i \in 1..Len(expression) : expression[i] = "-"

\* C6: with a token count other than 5 parse fails as an invalid expression
\* before any field is expanded (no field's failure is its cause); with 5
\* tokens a failure always has a field's failure as its cause.
C6_FieldCountEnforced ==
    parsed # None =>
        /\ TokenCount(expression) # 5 =>
               (~parsed.ok /\ parsed.exc = "ValueError"
                /\ parsed.msg = NotValidMessage(expression) /\ parsed.cause = None)
        /\ (TokenCount(expression) = 5 /\ ~parsed.ok) => parsed.cause # None

\* C6's case: six tokens, each valid in every field.
C6_Witness ==
    /\ parsed # None /\ ~parsed.ok
    /\ TokenCount(expression) = 6
    /\ \A i \in 1..Len(expression) : expression[i] \in {"*", " "}

\* C7: explain on the string ends as explain on the parsed schedule does, and
\* as parse does when parse rejects the string.
C7_ExplainStringAsSchedule ==
    /\ (explained # None /\ explainedSchedule # None) => explained = explainedSchedule
    /\ (explained # None /\ parsed # None /\ ~parsed.ok) => explained = parsed

\* what the synchronous form of a task's entry point gives for its argument
SyncOutcome(task) ==
    IF task.entry \in ParseEntries THEN CronUtil_parse(task.arg.value)
    ELSE CronUtil_explain(task.arg)

\* C8: each asynchronous call ends with exactly the result or the error of
\* the synchronous call on the same input, whatever the other calls do, and
\* holds no result before it ends.
C8_AsyncAsSync ==
    \A t \in 1..Len(tasks) :
        /\ tasks[t].pc = "returned" => tasks[t].result = SyncOutcome(tasks[t])
        /\ tasks[t].pc # "returned" => tasks[t].result = None
        /\ tasks[t].pc \in {"idle", "submitted"} => tasks[t].future = None

\* C8's case: two calls were in flight together and both ended, one with a
\* sentence and one with parse's error raised through explain.
C8_Witness ==
    /\ Len(tasks) >= 2
    /\ tasks[1].pc = "returned" /\ tasks[2].pc = "returned"
    /\ tasks[1].entry \in ExplainEntries /\ tasks[1].result.ok
    /\ tasks[2].entry \in ExplainEntries /\ ~tasks[2].result.ok
    /\ tasks[2].arg.type = "str" /\ tasks[2].result.exc = "ValueError"

\* the step a sub-token states: 1 without "/", the digits after the one "/"
RefStep(token) ==
    With(split(token, "/"), LAMBDA pieces :
        IF Len(pieces) = 1 THEN Some(1)
        ELSE IF Len(pieces) = 2 /\ isdigit(pieces[2]) THEN Some(DigitsValue(pieces[2]))
        ELSE None)

\* the text before the "/" of a sub-token
RefBase(token) == split(token, "/")[1]

\* an endpoint or literal: digits, or an alias name of the field
RefEndpoint(x, transform_map) ==
    IF isdigit(x) THEN Some(DigitsValue(x))
    ELSE IF x \in DOMAIN transform_map THEN Some(transform_map[x])
    ELSE None

\* start, start+s, ... up to end inclusive
RefRun(start, end, s) == {v \in start..end : (v - start) % s = 0}

\* the reference expansion of a range base start-end with step s
RefRange(base, s, allowed, transform_map) ==
    With(split(base, "-"), LAMBDA pieces :
        IF Len(pieces) # 2 THEN None
        ELSE With(RefEndpoint(pieces[1], transform_map), LAMBDA start :
             With(RefEndpoint(pieces[2], transform_map), LAMBDA end :
                 IF start = None \/ end = None THEN None
                 ELSE IF ~In(start.some, allowed) \/ ~In(end.some, allowed) THEN None
                 ELSE Some(RefRun(start.some, end.some, s)))))

\* the reference expansion of one sub-token: Some(set of values), or None
\* where the sub-token makes the field invalid
RefSubToken(token, allowed, transform_map) ==
    With(RefStep(token), LAMBDA step :
        IF step = None THEN None
        ELSE IF step.some = 0 \/ step.some >= Len(allowed) THEN None
        ELSE With(RefBase(token), LAMBDA base :
             IF base = <<"*">>
             THEN Some(RefRun(allowed[1], allowed[Len(allowed)], step.some))
             ELSE IF Contains(base, "-")
                  THEN RefRange(base, step.some, allowed, transform_map)
             ELSE With(RefEndpoint(base, transform_map), LAMBDA n :
                  IF n # None /\ step.some = 1 /\ In(n.some, allowed)
                  THEN Some({n.some})
                  ELSE None)))

\* the reference expansion of field i of a five-token expression
RefField(e, i) ==
    With({RefSubToken(token, FIELD_RANGES[FieldNames[i]], TransformMaps[FieldNames[i]]) :
             token \in SubTokensOf(e, i)}, LAMBDA expansions :
        IF None \in expansions THEN None
        ELSE Some(UNION {x.some : x \in expansions}))

\* C9: a field is accepted exactly when every sub-token has a reference
\* expansion, and then holds the sorted union of the reference expansions.
C9_ReferenceExpansion ==
    (parsed # None /\ TokenCount(expression) = 5) =>
        /\ parsed.ok <=> \A i \in 1..5 : RefField(expression, i) # None
        /\ parsed.ok =>
               \A i \in 1..5 :
                   /\ ToSet(FieldsOf(parsed.val)[i]) = RefField(expression, i).some
                   /\ \A k \in 1..Len(FieldsOf(parsed.val)[i]) - 1 :
                          FieldsOf(parsed.val)[i][k] < FieldsOf(parsed.val)[i][k + 1]

\* C9 apart from the endpoints int() takes and the reference does not (a
\* sign, an underscore between digits)
C9_ExceptLenientInt ==
    (\A k \in 1..Len(expression) : expression[k] \notin {"+", "_"})
        => C9_ReferenceExpansion

\* C10: with every hour and exactly one minute the time phrase is "At MM every
\* hour", and "Every minute" is chosen for every hour only when the minutes
\* are a contiguous run of more than one value.
C10_SingleMinuteEveryHour ==
    (/\ parsed # None /\ parsed.ok
     /\ is_full_range(parsed.val.hour, FIELD_RANGES.hours)
     /\ Len(parsed.val.minute) > 0)
        => /\ Len(parsed.val.minute) = 1 =>
                  summarize_time(parsed.val.minute, parsed.val.hour)
                      = <<"A","t"," ">> \o Format02d(parsed.val.minute[1])
                        \o <<" ","e","v","e","r","y"," ","h","o","u","r">>
           /\ summarize_time(parsed.val.minute, parsed.val.hour)
                  = <<"E","v","e","r","y"," ","m","i","n","u","t","e">>
                  => (Len(parsed.val.minute) > 1 /\ is_contiguous(parsed.val.minute))

\* the time phrase of a schedule
TimePhraseOf(schedule) == summarize_time(schedule.minute, schedule.hour)

\* day_of_month, month and day_of_week are all their full ranges
CalendarIsFull(schedule) ==
    /\ schedule.day_of_month = FIELD_RANGES.day_of_month
    /\ schedule.month = FIELD_RANGES.month
    /\ schedule.day_of_week = FIELD_RANGES.day_of_week

\* the "Every day at <rest>." form of a time phrase "At <rest>"
EveryDayForm(time_phrase) ==
    <<"E","v","e","r","y"," ","d","a","y"," ","a","t"," ">>
    \o SubSeq(time_phrase, 4, Len(time_phrase)) \o <<".">>

\* the time phrase (when non-empty), then each qualifier, one space between
GenericForm(time_phrase, qualifiers) ==
    join(<<" ">>, (IF Len(time_phrase) # 0 THEN <<time_phrase>> ELSE <<>>) \o qualifiers)
    \o <<".">>

\* sentence is the one C11 describes for schedule
SentenceAsDescribed(sentence, schedule) ==
    With(TimePhraseOf(schedule), LAMBDA time_phrase :
        /\ (sentence = EveryDayForm(time_phrase))
               <=> (startswith(time_phrase, <<"A","t"," ">>) /\ CalendarIsFull(schedule))
        /\ startswith(sentence, <<"E","v","e","r","y"," ","d","a","y"," ","a","t"," ">>)
               => (startswith(time_phrase, <<"A","t"," ">>) /\ CalendarIsFull(schedule))
        /\ ~(startswith(time_phrase, <<"A","t"," ">>) /\ CalendarIsFull(schedule))
               => sentence = GenericForm(time_phrase,
                      summarize_calendar(schedule.day_of_month, schedule.month,
                                         schedule.day_of_week).val)
        /\ Len(sentence) > 1
        /\ {i \in 1..Len(sentence) : sentence[i] = "."} = {Len(sentence)}
        /\ sentence[1] \notin Whitespace
        /\ sentence[Len(sentence)] \notin Whitespace)

\* C11: a returned sentence is "Every day at <rest>." exactly when the time
\* phrase starts with "At " and the three calendar fields are full range;
\* otherwise it is the time phrase (when non-empty) and the calendar
\* qualifiers joined by single spaces; it ends with its only period and has
\* no whitespace at either end.
C11_SentenceAssembly ==
    (parsed # None /\ parsed.ok) =>
        /\ (explained # None /\ explained.ok)
               => SentenceAsDescribed(explained.val, parsed.val)
        /\ (explainedSchedule # None /\ explainedSchedule.ok)
               => SentenceAsDescribed(explainedSchedule.val, parsed.val)

\* C11's case: a time phrase "At 08:00" under a full calendar became
\* "Every day at 08:00."
C11_Witness ==
    /\ parsed # None /\ parsed.ok /\ CalendarIsFull(parsed.val)
    /\ TimePhraseOf(parsed.val) = <<"A","t"," ","0","8",":","0","0">>
    /\ explained # None /\ explained.ok
    /\ explained.val = <<"E","v","e","r","y"," ","d","a","y"," ","a","t"," ",
                         "0","8",":","0","0",".">>

\* the qualifiers of a schedule, or the exception
CalendarOf(schedule) ==
    summarize_calendar(schedule.day_of_month, schedule.month, schedule.day_of_week)

\* the kind of a qualifier, told by how it starts
IsDowQualifier(q) ==
    startswith(q, <<"o","n"," ">>) /\ ~startswith(q, <<"o","n"," ","t","h","e"," ">>)

IsDomQualifier(q) ==
    \/ startswith(q, <<"o","n"," ","t","h","e"," ">>)
    \/ startswith(q, <<"f","r","o","m"," ","t","h","e"," ">>)

IsMonthQualifier(q) ==
    startswith(q, <<"d","u","r","i","n","g"," ">>) \/ startswith(q, <<"i","n"," ">>)

\* 1 for a field that differs from its full range, 0 for one that equals it
Differs(values, allowed) == IF values # allowed THEN 1 ELSE 0

\* qualifiers holds one qualifier per field of schedule that differs from its
\* full range, day-of-week first, then day-of-month, then month
QualifiersAsDescribed(qualifiers, schedule) ==
    With(Differs(schedule.day_of_week, FIELD_RANGES.day_of_week), LAMBDA w :
    With(Differs(schedule.day_of_month, FIELD_RANGES.day_of_month), LAMBDA d :
    With(Differs(schedule.month, FIELD_RANGES.month), LAMBDA m :
        /\ Len(qualifiers) = w + d + m
        /\ w = 1 => IsDowQualifier(qualifiers[1])
        /\ d = 1 => IsDomQualifier(qualifiers[w + 1])
        /\ m = 1 => IsMonthQualifier(qualifiers[w + d + 1]))))

\* C12: for every parsed schedule the calendar phrase holds one qualifier for
\* each of day_of_week, day_of_month and month that differs from its full
\* range, none for one that equals it, in that order.
C12_CalendarQualifiers ==
    (parsed # None /\ parsed.ok) =>
        /\ CalendarOf(parsed.val).ok
        /\ QualifiersAsDescribed(CalendarOf(parsed.val).val, parsed.val)

\* C12 for the schedules whose five fields all hold a value
C12_ExceptEmptyFields ==
    (parsed # None /\ parsed.ok /\ AllFieldsNonEmpty(parsed.val))
        => C12_CalendarQualifiers

\* the month qualifier alone: _summarize_non_full_month on an empty list
MonthQualifierOf(month) == summarize_non_full_month(<<>>, month)

\* a contiguous ascending run: at least one value, each one more than the last
IsAscendingRun(values) ==
    Len(values) > 0 /\ \A i \in 1..Len(values) - 1 : values[i + 1] = values[i] + 1

\* "during {first} to {last}"
DuringForm(first, last) ==
    <<"d","u","r","i","n","g"," ">> \o MONTH_INDEX_TO_NAME[first]
    \o <<" ","t","o"," ">> \o MONTH_INDEX_TO_NAME[last]

\* "in {m1}, {m2} and {m3}"
InForm(month) ==
    <<"i","n"," ">> \o join_list([i \in 1..Len(month) |-> MONTH_INDEX_TO_NAME[month[i]]])

\* qualifier is the one C13 describes for month
MonthQualifierAsDescribed(qualifier, month) ==
    /\ IsAscendingRun(month) => qualifier = DuringForm(month[1], month[Len(month)])
    /\ ~IsAscendingRun(month) => qualifier = InForm(month)
    /\ startswith(qualifier, <<"d","u","r","i","n","g"," ">>) <=> IsAscendingRun(month)
    /\ Len(month) = 1 => qualifier = DuringForm(month[1], month[1])

\* C13: for every parsed schedule whose month field is not 1..12 the month
\* qualifier is "during {first} to {last}" exactly when the months are a
\* contiguous ascending run, a single month included, and "in {names}"
\* otherwise; it is the last qualifier of the calendar phrase.
C13_MonthQualifier ==
    (parsed # None /\ parsed.ok /\ parsed.val.month # FIELD_RANGES.month) =>
        With(MonthQualifierOf(parsed.val.month), LAMBDA qualifier :
            IF ~qualifier.ok THEN FALSE
            ELSE /\ Len(qualifier.val) = 1
                 /\ MonthQualifierAsDescribed(qualifier.val[1], parsed.val.month)
                 /\ CalendarOf(parsed.val).ok =>
                        CalendarOf(parsed.val).val[Len(CalendarOf(parsed.val).val)]
                            = qualifier.val[1])

\* C13 for the schedules whose month field holds a value
C13_ExceptEmptyMonth ==
    (parsed # None /\ parsed.ok /\ Len(parsed.val.month) > 0) => C13_MonthQualifier
====
